---- MODULE Spec2Model ----
(***************************************************************************)
(* Model of pkg/turndown/provider/eksprovider.go: the capacity codec       *)
(* (flatRange / expandRange) and the two batch operations of EKSProvider   *)
(* (SetNodePoolSizes / ResetNodePoolSizes) layered on a ClusterProvider.   *)
(* Strings are sequences of one-character strings; int32 values are exact. *)
(***************************************************************************)
EXTENDS Integers, Sequences, FiniteSets, TLC

\* ------------------------------------------------------------------------
\* Constants of the program
\* ------------------------------------------------------------------------
EKSNodeGroupPreviousKey == "cluster.turndown.previous"

EKSTurndownPoolName == "cluster-turndown"

MaxInt32 == 2147483647

MinInt32 == -2147483647 - 1

\* ------------------------------------------------------------------------
\* Decimal formatting: fmt.Sprintf("%d", int32)
\* ------------------------------------------------------------------------
DigitChars == <<"0", "1", "2", "3", "4", "5", "6", "7", "8", "9">>

IsDigit(ch) == \E d \in 1..10 : DigitChars[d] = ch

DigitVal(ch) == (CHOOSE d \in 1..10 : DigitChars[d] = ch) - 1

RECURSIVE NatDigits(_)
NatDigits(n) ==
    IF n < 10 THEN <<DigitChars[n + 1]>>
    ELSE NatDigits(n \div 10) \o <<DigitChars[(n % 10) + 1]>>

\* digits of -n for n < 0, computed without negating n (-MinInt32 overflows)
RECURSIVE NegDigits(_)
NegDigits(n) ==
    LET d == (10 - (n % 10)) % 10
        q == (n + d) \div 10
    IN  IF q = 0 THEN <<DigitChars[d + 1]>>
        ELSE NegDigits(q) \o <<DigitChars[d + 1]>>

FormatInt32(n) == IF n >= 0 THEN NatDigits(n) ELSE <<"-">> \o NegDigits(n)

\* a flatRange that writes the fields in the wrong order
flatRangeSwapped(min, max, count) ==
    FormatInt32(max) \o <<"/">> \o FormatInt32(min) \o <<"/">> \o FormatInt32(count)

flatRange(min, max, count) ==
    FormatInt32(min) \o <<"/">> \o FormatInt32(max) \o <<"/">> \o FormatInt32(count)

\* ------------------------------------------------------------------------
\* strings.Split(s, "/")
\* ------------------------------------------------------------------------
RECURSIVE Split(_)
Split(s) ==
    IF \A k \in 1..Len(s) : s[k] # "/" THEN <<s>>
    ELSE LET k == CHOOSE j \in 1..Len(s) :
                      s[j] = "/" /\ \A h \in 1..(j - 1) : s[h] # "/"
         IN  <<SubSeq(s, 1, k - 1)>> \o Split(SubSeq(s, k + 1, Len(s)))

\* ------------------------------------------------------------------------
\* strconv.Atoi on a 64-bit int, followed by the int32(...) conversion
\* ------------------------------------------------------------------------
AtoiNeg(s) == Len(s) > 0 /\ s[1] = "-"

AtoiDigits(s) == IF Len(s) > 0 /\ s[1] \in {"+", "-"} THEN Tail(s) ELSE s

RECURSIVE StripZeros(_)
StripZeros(ds) == IF Len(ds) > 1 /\ ds[1] = "0" THEN StripZeros(Tail(ds)) ELSE ds

\* a <= b for digit strings of equal length
RECURSIVE DigitsLeq(_, _)
DigitsLeq(a, b) ==
    IF a = <<>> THEN TRUE
    ELSE IF DigitVal(a[1]) # DigitVal(b[1]) THEN DigitVal(a[1]) < DigitVal(b[1])
    ELSE DigitsLeq(Tail(a), Tail(b))

\* |MaxInt64| and |MinInt64| as digit strings
MaxInt64Digits ==
    <<"9","2","2","3","3","7","2","0","3","6","8","5","4","7","7","5","8","0","7">>

MinInt64Digits ==
    <<"9","2","2","3","3","7","2","0","3","6","8","5","4","7","7","5","8","0","8">>

AtoiSyntaxErr(s) ==
    LET ds == AtoiDigits(s)
    IN  ds = <<>> \/ \E k \in 1..Len(ds) : ~IsDigit(ds[k])

AtoiRangeErr(s) ==
    LET ds  == StripZeros(AtoiDigits(s))
        lim == IF AtoiNeg(s) THEN MinInt64Digits ELSE MaxInt64Digits
    IN  Len(ds) > Len(lim) \/ (Len(ds) = Len(lim) /\ ~DigitsLeq(ds, lim))

\* err # nil of strconv.Atoi(s)
AtoiErr(s) == AtoiSyntaxErr(s) \/ AtoiRangeErr(s)

Limb == 65536

\* magnitude of a digit string modulo 2^32, as <<high limb, low limb>>
RECURSIVE MagMod(_, _, _)
MagMod(ds, hi, lo) ==
    IF ds = <<>> THEN <<hi, lo>>
    ELSE LET t == lo * 10 + DigitVal(ds[1])
         IN  MagMod(Tail(ds), (hi * 10 + (t \div Limb)) % Limb, t % Limb)

\* two's complement negation modulo 2^32
NegateMod(m) ==
    IF m[2] = 0 THEN <<(Limb - m[1]) % Limb, 0>>
    ELSE <<Limb - 1 - m[1], Limb - m[2]>>

\* int32(v) for the low 32 bits <<hi, lo>> of v
ToInt32(m) ==
    IF m[1] >= Limb \div 2 THEN (m[1] - Limb) * Limb + m[2]
    ELSE m[1] * Limb + m[2]

\* int32(v) where v, err := strconv.Atoi(s) and err = nil
AtoiInt32(s) ==
    LET m == MagMod(AtoiDigits(s), 0, 0)
    IN  ToInt32(IF AtoiNeg(s) THEN NegateMod(m) ELSE m)

\* ------------------------------------------------------------------------
\* expandRange: values[2] panics when the marker has fewer than three fields
\* ------------------------------------------------------------------------
Triple(min, max, count) == [panic |-> FALSE, min |-> min, max |-> max, count |-> count]

Panic == [panic |-> TRUE, min |-> 0, max |-> 0, count |-> 0]

expandRange(s) ==
    LET values == Split(s)
    IN  IF Len(values) < 3 THEN Panic
        ELSE IF AtoiErr(values[3]) THEN Triple(-1, -1, -1)
        ELSE LET count == AtoiInt32(values[3])
                 min   == IF AtoiErr(values[1]) THEN count ELSE AtoiInt32(values[1])
                 max   == IF AtoiErr(values[2]) THEN count ELSE AtoiInt32(values[2])
             IN  Triple(min, max, count)

\* ------------------------------------------------------------------------
\* Bounds and input sets
\* ------------------------------------------------------------------------
\* longest marker, in '/'-separated fields, handed to expandRange directly
MaxFields == 4

\* batch calls in one run
MaxBatches == 2

PoolNames == {"A", "B", "C"}

Callers == {1, 2}

\* sizes a caller asks SetNodePoolSizes for
TargetSizes == {0, 1}

\* errors a ClusterProvider call can return
Errors == {"ErrProvider"}

OwnerKey == "owner"

OwnerTags == [k \in {OwnerKey} |-> <<"o", "p", "s">>]

NoTags == [k \in {} |-> <<>>]

MarkerTag(m) == [k \in {EKSNodeGroupPreviousKey} |-> m]

Garbage == <<"g", "a", "r", "b", "a", "g", "e">>

BigWrap == <<"4", "2", "9", "4", "9", "6", "7", "2", "9", "8">>

BigNeg == <<"4", "2", "9", "4", "9", "6", "7", "2", "9", "5">>

TooBig == <<"9", "9", "9", "9", "9", "9", "9", "9", "9", "9",
            "9", "9", "9", "9", "9", "9", "9", "9", "9", "9">>

\* triples given to flatRange
Int32Samples == {MinInt32, -1, 0, 1, 2, 10, MaxInt32}

\* fields markers are assembled from
FieldSamples ==
    { <<>>, <<"x">>, <<"3">>, <<"1", "0">>, <<"5", "0">>, <<"-", "1">>,
      <<"+", "5">>, <<"0", "0", "7">>, Garbage, BigWrap, TooBig }

RECURSIVE Join(_)
Join(fs) ==
    IF Len(fs) = 0 THEN <<>>
    ELSE IF Len(fs) = 1 THEN fs[1]
    ELSE fs[1] \o <<"/">> \o Join(Tail(fs))

FieldLists(n) == [1..n -> FieldSamples]

\* marker strings handed to expandRange
Markers == {Join(fs) : fs \in UNION {FieldLists(n) : n \in 0..MaxFields}}

NodePool(min, max, count, tags) ==
    [min |-> min, max |-> max, count |-> count, tags |-> tags]

M152 == <<"1", "/", "5", "/", "2">>

\* nothing turned down
QuietStore ==
    [A |-> NodePool(1, 5, 2, OwnerTags), B |-> NodePool(1, 5, 2, NoTags),
     C |-> NodePool(0, 3, 1, NoTags)]

\* stores the provider can hold when the program starts
InitPools ==
    { QuietStore,
      \* B and C turned down earlier, A not
      [A |-> NodePool(1, 5, 2, OwnerTags),
       B |-> NodePool(1, 5, 0, MarkerTag(M152) @@ OwnerTags),
       C |-> NodePool(0, 3, 0, MarkerTag(<<"x", "/", "3", "/", "3">>))],
      \* A's marker was overwritten by hand with a one-field string
      [A |-> NodePool(1, 5, 0, MarkerTag(Garbage)),
       B |-> NodePool(1, 5, 0, MarkerTag(M152) @@ OwnerTags),
       C |-> NodePool(0, 3, 0, MarkerTag(<<"0", "/", "3", "/", "-", "1">>))],
      \* A's count field is not a number, B's is beyond int32
      [A |-> NodePool(1, 5, 0, MarkerTag(<<"1", "/", "5", "/", "x">>)),
       B |-> NodePool(1, 5, 0, MarkerTag(<<"1", "/", "5", "/">> \o BigWrap)),
       C |-> NodePool(0, 3, 1, NoTags)] }

\* orders in which a caller lists pools for a batch call
Orders ==
    { <<>>, <<"B">>, <<"A", "B">>, <<"A", "B", "C">>, <<"C", "B", "A">> }

\* ------------------------------------------------------------------------
\* State
\* ------------------------------------------------------------------------
VARIABLES
    pools,        \* the ClusterProvider's store: name -> [min, max, count, tags]
    resizeClamps, \* whether this provider keeps min <= count <= max on resize
    frame,        \* per caller: the running or last batch call
    turnedDown,   \* history: pool was shrunk by Set and not yet restored by Reset
    lastNormal,   \* history: the count the pool had when it was last not turned down
    batches,      \* batch calls made so far
    cpc, cin, cmarker, cout,  \* a direct use of the codec
    turndownPools, \* the ClusterProvider's pools named cluster-turndown
    requests,      \* CreateNodePool requests the ClusterProvider received
    returns        \* what each CreateSingletonNodePool call returned

vars == <<pools, resizeClamps, frame, turnedDown, lastNormal, batches, cpc, cin, cmarker, cout,
          turndownPools, requests, returns>>

mainVars == <<pools, resizeClamps, frame, turnedDown, lastNormal, batches>>

codecVars == <<cpc, cin, cmarker, cout>>

singletonVars == <<turndownPools, requests, returns>>

HasMarker(tags) == EKSNodeGroupPreviousKey \in DOMAIN tags

\* the cp.NodePool value for a pool: a copy of the store's entry
Snapshot(ps, name) ==
    [name |-> name, min |-> ps[name].min, max |-> ps[name].max,
     count |-> ps[name].count, tags |-> ps[name].tags]

NoPrev == [op |-> "none"]

IdleFrame ==
    [op |-> "none", nodePools |-> <<>>, size |-> 0, i |-> 0, pc |-> "idle",
     ret |-> "none", calls |-> <<>>, pre |-> <<>>, fresh |-> TRUE, prev |-> NoPrev]

\* ------------------------------------------------------------------------
\* ClusterProvider primitives
\* ------------------------------------------------------------------------
Min2(a, b) == IF a < b THEN a ELSE b

Max2(a, b) == IF a > b THEN a ELSE b

UpdateNodePoolSize(ps, name, sz, clamp) ==
    [ps EXCEPT ![name] =
        [@ EXCEPT !.count = sz,
                  !.min = IF clamp THEN Min2(@, sz) ELSE @,
                  !.max = IF clamp THEN Max2(@, sz) ELSE @]]

CreateOrUpdateTags(ps, name, tags) ==
    [ps EXCEPT ![name].tags =
        [k \in DOMAIN @ \cup DOMAIN tags |-> IF k \in DOMAIN tags THEN tags[k] ELSE @[k]]]

DeleteTags(ps, name, keys) ==
    [ps EXCEPT ![name].tags = [k \in DOMAIN @ \ keys |-> @[k]]]

Call(fn, name, arg, err) == [fn |-> fn, pool |-> name, arg |-> arg, err |-> err]

\* ------------------------------------------------------------------------
\* Initial state
\* ------------------------------------------------------------------------
\* a pool found turned down was last normal at the count its marker holds;
\* a negative number stands for a count nobody recorded
InitLastNormal(np) ==
    IF ~HasMarker(np.tags) THEN np.count
    ELSE LET t == expandRange(np.tags[EKSNodeGroupPreviousKey])
         IN  IF t.panic \/ t.count < 0 THEN -1 ELSE t.count

CodecOff == cpc = "off" /\ cin = <<>> /\ cmarker = <<>> /\ cout = <<>>

\* no turndown pool yet, CreateSingletonNodePool not called yet
SingletonOff == turndownPools = <<>> /\ requests = <<>> /\ returns = <<>>

Init ==
    /\ pools \in InitPools
    /\ resizeClamps \in BOOLEAN
    /\ frame = [c \in Callers |-> IdleFrame]
    /\ turnedDown = [p \in PoolNames |-> HasMarker(pools[p].tags)]
    /\ lastNormal = [p \in PoolNames |-> InitLastNormal(pools[p])]
    /\ batches = 0
    /\ CodecOff
    /\ SingletonOff

\* ------------------------------------------------------------------------
\* EKSProvider operations
\* ------------------------------------------------------------------------
Returned(c) == frame[c].pc \in {"idle", "done", "panicked"}

\* what the caller remembers of the call it made before this one
Summary(f) ==
    IF f.op = "none" THEN NoPrev
    ELSE LET names == {f.nodePools[k].name : k \in 1..Len(f.nodePools)}
         IN  [op |-> f.op, ok |-> f.ret = "nil", fresh |-> f.fresh, names |-> names,
              given |-> [p \in names |->
                            f.nodePools[CHOOSE k \in 1..Len(f.nodePools) :
                                            f.nodePools[k].name = p]],
              pre |-> [p \in names |-> f.pre[p]]]

\* a NewFrame that treats an empty list as an error
NewFrameRejectsEmpty(c, op, nps, sz) ==
        [op |-> op, nodePools |-> nps, size |-> sz, i |-> 1,
         pc |-> IF Len(nps) = 0 THEN "done" ELSE "iter",
         ret |-> IF Len(nps) = 0 THEN "ErrNoPools" ELSE "none",
         calls |-> <<>>, pre |-> pools,
         fresh |-> \A k \in 1..Len(nps) : nps[k] = Snapshot(pools, nps[k].name),
         prev |-> Summary(frame[c])]

NewFrame(c, op, nps, sz) ==
        [op |-> op, nodePools |-> nps, size |-> sz, i |-> 1,
         pc |-> IF Len(nps) = 0 THEN "done" ELSE "iter",
         ret |-> IF Len(nps) = 0 THEN "nil" ELSE "none",
         calls |-> <<>>, pre |-> pools,
         fresh |-> \A k \in 1..Len(nps) : nps[k] = Snapshot(pools, nps[k].name),
         prev |-> Summary(frame[c])]

\* end of one loop iteration: next entry, or fall out of the loop and return nil
Advance(f) ==
    IF f.i = Len(f.nodePools) THEN [f EXCEPT !.pc = "done", !.ret = "nil"]
    ELSE [f EXCEPT !.i = @ + 1, !.pc = "iter"]

\* a failure that is logged and then ignored: the loop goes on
FailContinue(f, call) == Advance([f EXCEPT !.calls = Append(@, call)])

\* a failure that is logged and then retried: the same call is issued again
FailRetry(f, call) == [f EXCEPT !.calls = Append(@, call)]

Fail(f, call) ==
    [f EXCEPT !.pc = "done", !.ret = call.err, !.calls = Append(@, call)]

\* GetNodePools: the provider's pools as cp.NodePool values, in the order asked
GetNodePools(order) == [k \in 1..Len(order) |-> Snapshot(pools, order[k])]

\* lists a caller can pass: freshly listed pools, or the list of its last call
Lists(c) == {GetNodePools(order) : order \in Orders} \cup {frame[c].nodePools}

SetNodePoolSizes(c, nodePools, sz) ==
    /\ Returned(c)
    /\ batches < MaxBatches
    /\ batches' = batches + 1
    /\ frame' = [frame EXCEPT ![c] = NewFrame(c, "Set", nodePools, sz)]
    /\ UNCHANGED <<pools, resizeClamps, turnedDown, lastNormal, codecVars, singletonVars>>

\* a SetResize whose error is logged but not returned: the tag write follows
SetResizeIgnoringError(c, err) ==
    LET f    == frame[c]
        np   == f.nodePools[f.i]
        call == Call("UpdateNodePoolSize", np.name, f.size, err)
    IN  /\ f.op = "Set" /\ f.pc = "iter"
        /\ IF err = "nil"
           THEN /\ pools' = UpdateNodePoolSize(pools, np.name, f.size, resizeClamps)
                /\ turnedDown' = [turnedDown EXCEPT ![np.name] = TRUE]
                /\ lastNormal' = [lastNormal EXCEPT ![np.name] =
                                      IF turnedDown[np.name] THEN @
                                      ELSE pools[np.name].count]
           ELSE UNCHANGED <<pools, turnedDown, lastNormal>>
        /\ frame' = [frame EXCEPT ![c] =
                        [f EXCEPT !.pc = "tag", !.calls = Append(@, call)]]
        /\ UNCHANGED <<resizeClamps, batches, codecVars, singletonVars>>

SetResize(c, err) ==
    LET f    == frame[c]
        np   == f.nodePools[f.i]
        call == Call("UpdateNodePoolSize", np.name, f.size, err)
    IN  /\ f.op = "Set" /\ f.pc = "iter"
        /\ IF err = "nil"
           THEN /\ pools' = UpdateNodePoolSize(pools, np.name, f.size, resizeClamps)
                /\ turnedDown' = [turnedDown EXCEPT ![np.name] = TRUE]
                /\ lastNormal' = [lastNormal EXCEPT ![np.name] =
                                      IF turnedDown[np.name] THEN @
                                      ELSE pools[np.name].count]
                /\ frame' = [frame EXCEPT ![c] =
                                [f EXCEPT !.pc = "tag", !.calls = Append(@, call)]]
           ELSE /\ frame' = [frame EXCEPT ![c] = Fail(f, call)]
                /\ UNCHANGED <<pools, turnedDown, lastNormal>>
        /\ UNCHANGED <<resizeClamps, batches, codecVars, singletonVars>>

\* a SetTags that encodes the pool's values as they are after the resize
SetTagsAfterResize(c, err) ==
    LET f    == frame[c]
        np   == f.nodePools[f.i]
        now  == pools[np.name]
        rng  == flatRange(now.min, now.max, now.count)
        call == Call("CreateOrUpdateTags", np.name, MarkerTag(rng), err)
    IN  /\ f.op = "Set" /\ f.pc = "tag"
        /\ IF err = "nil"
           THEN /\ pools' = CreateOrUpdateTags(pools, np.name, MarkerTag(rng))
                /\ frame' = [frame EXCEPT ![c] =
                                Advance([f EXCEPT !.calls = Append(@, call)])]
           ELSE /\ frame' = [frame EXCEPT ![c] = Fail(f, call)]
                /\ UNCHANGED pools
        /\ UNCHANGED <<resizeClamps, turnedDown, lastNormal, batches, codecVars, singletonVars>>

\* a SetTags that leaves a marker the pool already carries in place
SetTagsKeepFirst(c, err) ==
    LET f    == frame[c]
        np   == f.nodePools[f.i]
        rng  == IF HasMarker(np.tags) THEN np.tags[EKSNodeGroupPreviousKey]
                ELSE flatRange(np.min, np.max, np.count)
        call == Call("CreateOrUpdateTags", np.name, MarkerTag(rng), err)
    IN  /\ f.op = "Set" /\ f.pc = "tag"
        /\ IF err = "nil"
           THEN /\ pools' = CreateOrUpdateTags(pools, np.name, MarkerTag(rng))
                /\ frame' = [frame EXCEPT ![c] =
                                Advance([f EXCEPT !.calls = Append(@, call)])]
           ELSE /\ frame' = [frame EXCEPT ![c] = Fail(f, call)]
                /\ UNCHANGED pools
        /\ UNCHANGED <<resizeClamps, turnedDown, lastNormal, batches, codecVars, singletonVars>>

\* a SetTags that takes the entry to mark from a field of the provider object,
\* which every running call overwrites with its own current entry
SetTagsSharedEntry(c, err) ==
    LET f      == frame[c]
        others == {d \in Callers \ {c} : frame[d].pc \in {"iter", "tag"}}
        g      == IF others = {} THEN f ELSE frame[CHOOSE d \in others : TRUE]
        np     == g.nodePools[g.i]
        rng    == flatRange(np.min, np.max, np.count)
        call   == Call("CreateOrUpdateTags", np.name, MarkerTag(rng), err)
    IN  /\ f.op = "Set" /\ f.pc = "tag"
        /\ IF err = "nil"
           THEN /\ pools' = CreateOrUpdateTags(pools, np.name, MarkerTag(rng))
                /\ frame' = [frame EXCEPT ![c] =
                                Advance([f EXCEPT !.calls = Append(@, call)])]
           ELSE /\ frame' = [frame EXCEPT ![c] = Fail(f, call)]
                /\ UNCHANGED pools
        /\ UNCHANGED <<resizeClamps, turnedDown, lastNormal, batches, codecVars, singletonVars>>

SetTags(c, err) ==
    LET f    == frame[c]
        np   == f.nodePools[f.i]
        rng  == flatRange(np.min, np.max, np.count)
        call == Call("CreateOrUpdateTags", np.name, MarkerTag(rng), err)
    IN  /\ f.op = "Set" /\ f.pc = "tag"
        /\ IF err = "nil"
           THEN /\ pools' = CreateOrUpdateTags(pools, np.name, MarkerTag(rng))
                /\ frame' = [frame EXCEPT ![c] =
                                Advance([f EXCEPT !.calls = Append(@, call)])]
           ELSE /\ frame' = [frame EXCEPT ![c] = Fail(f, call)]
                /\ UNCHANGED pools
        /\ UNCHANGED <<resizeClamps, turnedDown, lastNormal, batches, codecVars, singletonVars>>

ResetNodePoolSizes(c, nodePools) ==
    /\ Returned(c)
    /\ batches < MaxBatches
    /\ batches' = batches + 1
    /\ frame' = [frame EXCEPT ![c] = NewFrame(c, "Reset", nodePools, 0)]
    /\ UNCHANGED <<pools, resizeClamps, turnedDown, lastNormal, codecVars, singletonVars>>

\* a ResetMissingTag that returns an error instead of continuing
ResetMissingTagAbort(c) ==
    LET f  == frame[c]
        np == f.nodePools[f.i]
    IN  /\ f.op = "Reset" /\ f.pc = "iter"
        /\ ~HasMarker(np.tags)
        /\ frame' = [frame EXCEPT ![c] = [f EXCEPT !.pc = "done", !.ret = "ErrNoMarker"]]
        /\ UNCHANGED <<pools, resizeClamps, turnedDown, lastNormal, batches, codecVars, singletonVars>>

ResetMissingTag(c) ==
    LET f  == frame[c]
        np == f.nodePools[f.i]
    IN  /\ f.op = "Reset" /\ f.pc = "iter"
        /\ ~HasMarker(np.tags)
        /\ frame' = [frame EXCEPT ![c] = Advance(f)]
        /\ UNCHANGED <<pools, resizeClamps, turnedDown, lastNormal, batches, codecVars, singletonVars>>

ResetPanic(c) ==
    LET f  == frame[c]
        np == f.nodePools[f.i]
    IN  /\ f.op = "Reset" /\ f.pc = "iter"
        /\ HasMarker(np.tags)
        /\ expandRange(np.tags[EKSNodeGroupPreviousKey]).panic
        /\ frame' = [frame EXCEPT ![c] = [f EXCEPT !.pc = "panicked", !.ret = "panic"]]
        /\ UNCHANGED <<pools, resizeClamps, turnedDown, lastNormal, batches, codecVars, singletonVars>>

ResetUnreadable(c) ==
    LET f  == frame[c]
        np == f.nodePools[f.i]
    IN  /\ f.op = "Reset" /\ f.pc = "iter"
        /\ HasMarker(np.tags)
        /\ ~expandRange(np.tags[EKSNodeGroupPreviousKey]).panic
        /\ expandRange(np.tags[EKSNodeGroupPreviousKey]).count < 0
        /\ frame' = [frame EXCEPT ![c] = Advance(f)]
        /\ UNCHANGED <<pools, resizeClamps, turnedDown, lastNormal, batches, codecVars, singletonVars>>

\* a ResetResize whose error is logged but not returned
ResetResizeIgnoringError(c, err) ==
    LET f     == frame[c]
        np    == f.nodePools[f.i]
        count == expandRange(np.tags[EKSNodeGroupPreviousKey]).count
        call  == Call("UpdateNodePoolSize", np.name, count, err)
    IN  /\ f.op = "Reset" /\ f.pc = "iter"
        /\ HasMarker(np.tags)
        /\ ~expandRange(np.tags[EKSNodeGroupPreviousKey]).panic
        /\ count >= 0
        /\ IF err = "nil"
           THEN /\ pools' = UpdateNodePoolSize(pools, np.name, count, resizeClamps)
                /\ turnedDown' = [turnedDown EXCEPT ![np.name] = FALSE]
                /\ lastNormal' = [lastNormal EXCEPT ![np.name] = pools'[np.name].count]
           ELSE UNCHANGED <<pools, turnedDown, lastNormal>>
        /\ frame' = [frame EXCEPT ![c] =
                        [f EXCEPT !.pc = "tag", !.calls = Append(@, call)]]
        /\ UNCHANGED <<resizeClamps, batches, codecVars, singletonVars>>

\* a ResetResize that restores the pool to the decoded min instead of the count
ResetResizeToMin(c, err) ==
    LET f     == frame[c]
        np    == f.nodePools[f.i]
        count == expandRange(np.tags[EKSNodeGroupPreviousKey]).count
        min   == expandRange(np.tags[EKSNodeGroupPreviousKey]).min
        call  == Call("UpdateNodePoolSize", np.name, min, err)
    IN  /\ f.op = "Reset" /\ f.pc = "iter"
        /\ HasMarker(np.tags)
        /\ ~expandRange(np.tags[EKSNodeGroupPreviousKey]).panic
        /\ count >= 0
        /\ IF err = "nil"
           THEN /\ pools' = UpdateNodePoolSize(pools, np.name, min, resizeClamps)
                /\ turnedDown' = [turnedDown EXCEPT ![np.name] = FALSE]
                /\ lastNormal' = [lastNormal EXCEPT ![np.name] = pools'[np.name].count]
                /\ frame' = [frame EXCEPT ![c] =
                                [f EXCEPT !.pc = "tag", !.calls = Append(@, call)]]
           ELSE /\ frame' = [frame EXCEPT ![c] = Fail(f, call)]
                /\ UNCHANGED <<pools, turnedDown, lastNormal>>
        /\ UNCHANGED <<resizeClamps, batches, codecVars, singletonVars>>

\* a ResetResize after which the marker is not deleted
ResetResizeNoDelete(c, err) ==
    LET f     == frame[c]
        np    == f.nodePools[f.i]
        count == expandRange(np.tags[EKSNodeGroupPreviousKey]).count
        call  == Call("UpdateNodePoolSize", np.name, count, err)
    IN  /\ f.op = "Reset" /\ f.pc = "iter"
        /\ HasMarker(np.tags)
        /\ ~expandRange(np.tags[EKSNodeGroupPreviousKey]).panic
        /\ count >= 0
        /\ IF err = "nil"
           THEN /\ pools' = UpdateNodePoolSize(pools, np.name, count, resizeClamps)
                /\ turnedDown' = [turnedDown EXCEPT ![np.name] = FALSE]
                /\ lastNormal' = [lastNormal EXCEPT ![np.name] = pools'[np.name].count]
                /\ frame' = [frame EXCEPT ![c] =
                                Advance([f EXCEPT !.calls = Append(@, call)])]
           ELSE /\ frame' = [frame EXCEPT ![c] = Fail(f, call)]
                /\ UNCHANGED <<pools, turnedDown, lastNormal>>
        /\ UNCHANGED <<resizeClamps, batches, codecVars, singletonVars>>

ResetResize(c, err) ==
    LET f     == frame[c]
        np    == f.nodePools[f.i]
        count == expandRange(np.tags[EKSNodeGroupPreviousKey]).count
        call  == Call("UpdateNodePoolSize", np.name, count, err)
    IN  /\ f.op = "Reset" /\ f.pc = "iter"
        /\ HasMarker(np.tags)
        /\ ~expandRange(np.tags[EKSNodeGroupPreviousKey]).panic
        /\ count >= 0
        /\ IF err = "nil"
           THEN /\ pools' = UpdateNodePoolSize(pools, np.name, count, resizeClamps)
                /\ turnedDown' = [turnedDown EXCEPT ![np.name] = FALSE]
                /\ lastNormal' = [lastNormal EXCEPT ![np.name] = pools'[np.name].count]
                /\ frame' = [frame EXCEPT ![c] =
                                [f EXCEPT !.pc = "tag", !.calls = Append(@, call)]]
           ELSE /\ frame' = [frame EXCEPT ![c] = Fail(f, call)]
                /\ UNCHANGED <<pools, turnedDown, lastNormal>>
        /\ UNCHANGED <<resizeClamps, batches, codecVars, singletonVars>>

\* a ResetDeleteTags that deletes every tag of the pool
ResetDeleteTagsAll(c, err) ==
    LET f    == frame[c]
        np   == f.nodePools[f.i]
        call == Call("DeleteTags", np.name, DOMAIN np.tags, err)
    IN  /\ f.op = "Reset" /\ f.pc = "tag"
        /\ IF err = "nil"
           THEN /\ pools' = DeleteTags(pools, np.name, DOMAIN np.tags)
                /\ frame' = [frame EXCEPT ![c] =
                                Advance([f EXCEPT !.calls = Append(@, call)])]
           ELSE /\ frame' = [frame EXCEPT ![c] = Fail(f, call)]
                /\ UNCHANGED pools
        /\ UNCHANGED <<resizeClamps, turnedDown, lastNormal, batches, codecVars, singletonVars>>

ResetDeleteTags(c, err) ==
    LET f    == frame[c]
        np   == f.nodePools[f.i]
        call == Call("DeleteTags", np.name, {EKSNodeGroupPreviousKey}, err)
    IN  /\ f.op = "Reset" /\ f.pc = "tag"
        /\ IF err = "nil"
           THEN /\ pools' = DeleteTags(pools, np.name, {EKSNodeGroupPreviousKey})
                /\ frame' = [frame EXCEPT ![c] =
                                Advance([f EXCEPT !.calls = Append(@, call)])]
           ELSE /\ frame' = [frame EXCEPT ![c] = Fail(f, call)]
                /\ UNCHANGED pools
        /\ UNCHANGED <<resizeClamps, turnedDown, lastNormal, batches, codecVars, singletonVars>>

Outcomes == {"nil"} \cup Errors

\* one caller at a time drives the provider
MainCaller == 1

Run(c) ==
    \/ \E nps \in Lists(c), sz \in TargetSizes : SetNodePoolSizes(c, nps, sz)
    \/ \E err \in Outcomes : SetResize(c, err)
    \/ \E err \in Outcomes : SetTags(c, err)
    \/ \E nps \in Lists(c) : ResetNodePoolSizes(c, nps)
    \/ ResetMissingTag(c)
    \/ ResetPanic(c)
    \/ ResetUnreadable(c)
    \/ \E err \in Outcomes : ResetResize(c, err)
    \/ \E err \in Outcomes : ResetDeleteTags(c, err)

Next == Run(MainCaller)

Spec == Init /\ [][Next]_vars

\* ------------------------------------------------------------------------
\* Two callers, one batch call each, on pool sets that do not overlap
\* ------------------------------------------------------------------------
\* orders a concurrent caller lists its pools in
ConcOrders ==
    { <<"A">>, <<"B">>, <<"C">>, <<"A", "C">>, <<"C", "B">>, <<"B", "A">> }

Names(nps) == {nps[k].name : k \in 1..Len(nps)}

\* no other caller was given one of these pools
Disjoint(c, order) ==
    \A d \in Callers \ {c} :
        {order[k] : k \in 1..Len(order)} \cap Names(frame[d].nodePools) = {}

RunConc(c) ==
    \/ \E order \in ConcOrders, sz \in TargetSizes :
          /\ frame[c].op = "none" /\ Disjoint(c, order)
          /\ SetNodePoolSizes(c, GetNodePools(order), sz)
    \/ \E err \in Outcomes : SetResize(c, err)
    \/ \E err \in Outcomes : SetTags(c, err)
    \/ \E order \in ConcOrders :
          /\ frame[c].op = "none" /\ Disjoint(c, order)
          /\ ResetNodePoolSizes(c, GetNodePools(order))
    \/ ResetMissingTag(c)
    \/ ResetPanic(c)
    \/ ResetUnreadable(c)
    \/ \E err \in Outcomes : ResetResize(c, err)
    \/ \E err \in Outcomes : ResetDeleteTags(c, err)

NextConc == \E c \in Callers : RunConc(c)

SpecConc == Init /\ [][NextConc]_vars

\* ------------------------------------------------------------------------
\* The codec on its own: flatRange on sample triples, expandRange on the
\* result or on an arbitrary marker string
\* ------------------------------------------------------------------------
InitCodec ==
    /\ pools = QuietStore
    /\ resizeClamps = FALSE
    /\ frame = [c \in Callers |-> IdleFrame]
    /\ turnedDown = [p \in PoolNames |-> FALSE]
    /\ lastNormal = [p \in PoolNames |-> pools[p].count]
    /\ batches = 0
    /\ cpc = "start" /\ cin = <<>> /\ cmarker = <<>> /\ cout = <<>>
    /\ SingletonOff

CodecEncode ==
    /\ cpc = "start"
    /\ \E min, max, count \in Int32Samples :
          /\ cin' = <<min, max, count>>
          /\ cmarker' = flatRange(min, max, count)
    /\ cpc' = "encoded"
    /\ UNCHANGED <<cout, mainVars, singletonVars>>

CodecTake ==
    /\ cpc = "start"
    /\ cmarker' \in Markers
    /\ cpc' = "taken"
    /\ UNCHANGED <<cin, cout, mainVars, singletonVars>>

CodecDecode ==
    /\ cpc \in {"encoded", "taken"}
    /\ cout' = expandRange(cmarker)
    /\ cpc' = IF cpc = "encoded" THEN "roundtrip" ELSE "decoded"
    /\ UNCHANGED <<cin, cmarker, mainVars, singletonVars>>

NextCodec ==
    \/ CodecEncode
    \/ CodecTake
    \/ CodecDecode

SpecCodec == InitCodec /\ [][NextCodec]_vars


\* ------------------------------------------------------------------------
\* The turndown pool: CreateSingletonNodePool on its own
\* ------------------------------------------------------------------------
MaxCreates == 3

\* label keys a caller passes
LabelKeys == {"team", "env"}

LabelSets == {[k \in ks |-> "x"] : ks \in SUBSET LabelKeys}

\* the labels that identify a turndown pool
TurndownLabels == [k \in {"cluster-turndown-node"} |-> "true"]

toTurndownNodePoolLabels(labels) ==
    [k \in DOMAIN labels \cup DOMAIN TurndownLabels |->
        IF k \in DOMAIN TurndownLabels THEN TurndownLabels[k] ELSE labels[k]]

\* ClusterProvider.CreateNodePool: a failed request changes nothing, and a pool
\* whose name exists is not created again
CreateNodePool(ps, name, instanceType, count, diskType, diskSizeGB, labels, err) ==
    IF err # "nil" \/ \E k \in 1..Len(ps) : ps[k].name = name THEN ps
    ELSE Append(ps, [name |-> name, instanceType |-> instanceType, count |-> count,
                     diskType |-> diskType, diskSizeGB |-> diskSizeGB,
                     labels |-> labels])

InitSingleton ==
    /\ pools = QuietStore
    /\ resizeClamps = FALSE
    /\ frame = [c \in Callers |-> IdleFrame]
    /\ turnedDown = [p \in PoolNames |-> FALSE]
    /\ lastNormal = [p \in PoolNames |-> pools[p].count]
    /\ batches = 0
    /\ CodecOff
    /\ SingletonOff

\* a CreateSingletonNodePool that logs the provider's error and returns nil
CreateSingletonNodePoolSwallowsError(labels, err) ==
    /\ Len(returns) < MaxCreates
    /\ turndownPools' = CreateNodePool(turndownPools, EKSTurndownPoolName, "t2.small", 1,
                                       "gp2", 10, toTurndownNodePoolLabels(labels), err)
    /\ requests' = Append(requests,
                          [name |-> EKSTurndownPoolName, instanceType |-> "t2.small",
                           count |-> 1, diskType |-> "gp2", diskSizeGB |-> 10,
                           labels |-> toTurndownNodePoolLabels(labels), given |-> labels,
                           err |-> err])
    /\ returns' = Append(returns, "nil")
    /\ UNCHANGED <<mainVars, codecVars>>

CreateSingletonNodePool(labels, err) ==
    /\ Len(returns) < MaxCreates
    /\ turndownPools' = CreateNodePool(turndownPools, EKSTurndownPoolName, "t2.small", 1,
                                       "gp2", 10, toTurndownNodePoolLabels(labels), err)
    /\ requests' = Append(requests,
                          [name |-> EKSTurndownPoolName, instanceType |-> "t2.small",
                           count |-> 1, diskType |-> "gp2", diskSizeGB |-> 10,
                           labels |-> toTurndownNodePoolLabels(labels), given |-> labels,
                           err |-> err])
    /\ returns' = Append(returns, err)
    /\ UNCHANGED <<mainVars, codecVars>>

NextSingleton == \E labels \in LabelSets, err \in Outcomes : CreateSingletonNodePool(labels, err)

SpecSingleton == InitSingleton /\ [][NextSingleton]_vars

\* ------------------------------------------------------------------------
\* Properties of the codec (checked under SpecCodec)
\* ------------------------------------------------------------------------
Sentinel == Triple(-1, -1, -1)

\* the decimal value written in field s lies in the signed 32-bit range
FitsInt32(s) ==
    LET ds  == StripZeros(AtoiDigits(s))
        lim == IF AtoiNeg(s) THEN NegDigits(MinInt32) ELSE NatDigits(MaxInt32)
    IN  Len(ds) < Len(lim) \/ (Len(ds) = Len(lim) /\ DigitsLeq(ds, lim))

\* v is the number written in field s
IsValueOf(s, v) == ~AtoiErr(s) /\ FitsInt32(s) /\ AtoiInt32(s) = v

\* C1: expandRange(flatRange(min, max, count)) returns exactly (min, max, count)
\* for every int32 triple, zero, negative and extreme values included.
C1_RoundTrip ==
    cpc = "roundtrip" =>
        /\ ~cout.panic
        /\ <<cout.min, cout.max, cout.count>> = cin

C1_Witness ==
    /\ cpc = "roundtrip"
    /\ cin = <<MinInt32, MaxInt32, -1>>
    /\ cmarker = FormatInt32(MinInt32) \o <<"/">> \o FormatInt32(MaxInt32) \o <<"/", "-", "1">>

\* C2: expandRange never raises: every marker string, also one with fewer than
\* three '/'-separated fields, decodes to a triple, and to (-1, -1, -1) whenever
\* its count field cannot be parsed.
C2_DecodeNeverRaises ==
    cpc = "decoded" =>
        /\ ~cout.panic
        /\ (Len(Split(cmarker)) < 3 \/ AtoiErr(Split(cmarker)[3])) => cout = Sentinel

\* C3: for a three-field marker whose count field parses, expandRange returns
\* the number written in the count field; min and max are the numbers written
\* in their fields, each falling back to count on its own when it does not parse.
C3_FieldFallbacks ==
    LET values == Split(cmarker)
    IN  (cpc = "decoded" /\ Len(values) = 3 /\ ~AtoiErr(values[3])) =>
            /\ ~cout.panic
            /\ IsValueOf(values[3], cout.count)
            /\ IF AtoiErr(values[1]) THEN cout.min = cout.count
               ELSE IsValueOf(values[1], cout.min)
            /\ IF AtoiErr(values[2]) THEN cout.max = cout.count
               ELSE IsValueOf(values[2], cout.max)

\* ------------------------------------------------------------------------
\* Properties of the batch operations (checked under Spec)
\* ------------------------------------------------------------------------
F == frame[MainCaller]

NameAt(f, k) == f.nodePools[k].name

Entries(f) == 1..Len(f.nodePools)

NameSet(f) == {NameAt(f, k) : k \in Entries(f)}

\* indices in the call log of the provider calls made for pool p
CallsFor(f, p) == {j \in 1..Len(f.calls) : f.calls[j].pool = p}

Triple3(np) == <<np.min, np.max, np.count>>

MarkerOf(np) == np.tags[EKSNodeGroupPreviousKey]

\* the marker cannot be used to restore: decoding crashes or gives a negative count
Unreadable(np) ==
    /\ HasMarker(np.tags)
    /\ expandRange(MarkerOf(np)).panic \/ expandRange(MarkerOf(np)).count < 0

Restorable(np) == HasMarker(np.tags) /\ ~Unreadable(np)

\* C4: SetNodePoolSizes aborts on the first failing provider call: the pools
\* before the failing entry are resized to the target size and carry their
\* marker, no call is issued for any later pool (they are as they were), and
\* the call returns exactly the error of the failing provider call.
C4_SetAbortsOnFirstFailure ==
    F.op = "Set" =>
        \A j \in 1..Len(F.calls) :
            F.calls[j].err # "nil" =>
                /\ j = Len(F.calls)
                /\ F.pc = "done"
                /\ F.ret = F.calls[j].err
                /\ F.calls[j].pool = NameAt(F, F.i)
                /\ \A k \in 1..(F.i - 1) :
                      /\ pools[NameAt(F, k)].count = F.size
                      /\ HasMarker(pools[NameAt(F, k)].tags)
                      /\ MarkerOf(pools[NameAt(F, k)]) =
                            flatRange(F.nodePools[k].min, F.nodePools[k].max,
                                      F.nodePools[k].count)
                /\ \A k \in (F.i + 1)..Len(F.nodePools) :
                      /\ CallsFor(F, NameAt(F, k)) = {}
                      /\ pools[NameAt(F, k)] = F.pre[NameAt(F, k)]

C4_Witness ==
    /\ F.op = "Set" /\ F.pc = "done" /\ F.ret \in Errors
    /\ Len(F.nodePools) = 3 /\ F.i = 2
    /\ F.calls[Len(F.calls)].fn = "UpdateNodePoolSize"
    /\ pools[NameAt(F, 1)].count = F.size
    /\ pools[NameAt(F, 3)].count # F.size

\* C5: when every provider call succeeds, SetNodePoolSizes returns nil and
\* every listed pool is resized to the target size and carries, under
\* cluster.turndown.previous, flatRange of the min/max/count its NodePool value
\* had when the call was made, not of the values after the resize.
C5_SetMarksWithPreviousValues ==
    (F.op = "Set" /\ F.pc = "done" /\ \A j \in 1..Len(F.calls) : F.calls[j].err = "nil") =>
        /\ F.ret = "nil"
        /\ Len(F.calls) = 2 * Len(F.nodePools)
        /\ \A k \in Entries(F) :
              LET np == F.nodePools[k]
                  p  == pools[np.name]
              IN  /\ p.count = F.size
                  /\ HasMarker(p.tags)
                  /\ MarkerOf(p) = flatRange(np.min, np.max, np.count)
                  /\ F.fresh => MarkerOf(p) = flatRange(F.pre[np.name].min,
                                                        F.pre[np.name].max,
                                                        F.pre[np.name].count)

C5_Witness ==
    /\ F.op = "Set" /\ F.pc = "done" /\ F.ret = "nil" /\ F.fresh
    /\ Len(F.nodePools) = 3 /\ F.size = 1
    /\ \A k \in Entries(F) :
          /\ F.pre[NameAt(F, k)].count # F.size
          /\ pools[NameAt(F, k)].count = F.size
    /\ MarkerOf(pools["A"]) = M152

\* C6: ResetNodePoolSizes skips a pool whose tags lack the marker key: no
\* provider call is issued for it, it stays as it was, no error comes of it and
\* the loop goes on to the next pool; for [A unmarked, B marked "1/5/2"] B ends
\* at size 2 without marker and the call returns nil.
C6_ResetSkipsUnmarked ==
    F.op = "Reset" =>
        /\ \A k \in Entries(F) :
              ~HasMarker(F.nodePools[k].tags) =>
                  /\ CallsFor(F, NameAt(F, k)) = {}
                  /\ pools[NameAt(F, k)] = F.pre[NameAt(F, k)]
        /\ F.ret \notin {"none", "nil", "panic"} =>
              /\ F.calls # <<>>
              /\ F.calls[Len(F.calls)].err = F.ret
        /\ (F.pc = "done" /\ F.ret = "nil") =>
              \A k \in Entries(F) :
                  Restorable(F.nodePools[k]) =>
                      \E j \in CallsFor(F, NameAt(F, k)) :
                          /\ F.calls[j].fn = "UpdateNodePoolSize"
                          /\ F.calls[j].arg = expandRange(MarkerOf(F.nodePools[k])).count
        /\ (/\ F.pc = "done" /\ Len(F.nodePools) = 2
            /\ ~HasMarker(F.nodePools[1].tags)
            /\ HasMarker(F.nodePools[2].tags) /\ MarkerOf(F.nodePools[2]) = M152
            /\ \A j \in 1..Len(F.calls) : F.calls[j].err = "nil") =>
              /\ F.ret = "nil"
              /\ pools[NameAt(F, 2)].count = 2
              /\ ~HasMarker(pools[NameAt(F, 2)].tags)

C6_Witness ==
    /\ F.op = "Reset" /\ F.pc = "done" /\ F.ret = "nil" /\ F.fresh
    /\ Len(F.nodePools) = 2
    /\ ~HasMarker(F.nodePools[1].tags)
    /\ HasMarker(F.nodePools[2].tags) /\ MarkerOf(F.nodePools[2]) = M152
    /\ pools[NameAt(F, 1)] = F.pre[NameAt(F, 1)]
    /\ F.pre[NameAt(F, 2)].count = 0
    /\ pools[NameAt(F, 2)].count = 2
    /\ ~HasMarker(pools[NameAt(F, 2)].tags)

\* C7: ResetNodePoolSizes skips a pool whose marker is unreadable (malformed
\* strings included): no call is issued for it, it stays as it was, and the
\* batch goes on with the remaining pools instead of ending there.
C7_ResetSkipsUnreadable ==
    F.op = "Reset" =>
        /\ F.pc # "panicked"
        /\ \A k \in Entries(F) :
              Unreadable(F.nodePools[k]) =>
                  /\ CallsFor(F, NameAt(F, k)) = {}
                  /\ pools[NameAt(F, k)] = F.pre[NameAt(F, k)]
        /\ F.ret \notin {"none", "nil"} =>
              /\ F.calls # <<>>
              /\ F.calls[Len(F.calls)].err = F.ret

\* C8: in ResetNodePoolSizes a failing provider call ends the batch at once
\* with that error: after a failed resize no DeleteTags is issued for the pool
\* and its tags stay, and no call is issued for any later pool; a failed
\* DeleteTags ends the batch the same way.
C8_ResetAbortsOnProviderFailure ==
    F.op = "Reset" =>
        \A j \in 1..Len(F.calls) :
            F.calls[j].err # "nil" =>
                /\ j = Len(F.calls)
                /\ F.pc = "done"
                /\ F.ret = F.calls[j].err
                /\ F.calls[j].pool = NameAt(F, F.i)
                /\ pools[NameAt(F, F.i)].tags = F.pre[NameAt(F, F.i)].tags
                /\ F.calls[j].fn = "UpdateNodePoolSize" =>
                      /\ pools[NameAt(F, F.i)] = F.pre[NameAt(F, F.i)]
                      /\ \A h \in CallsFor(F, NameAt(F, F.i)) :
                            F.calls[h].fn # "DeleteTags"
                /\ \A k \in (F.i + 1)..Len(F.nodePools) :
                      /\ CallsFor(F, NameAt(F, k)) = {}
                      /\ pools[NameAt(F, k)] = F.pre[NameAt(F, k)]

C8_Witness ==
    /\ F.op = "Reset" /\ F.pc = "done" /\ F.ret \in Errors
    /\ F.calls[Len(F.calls)].fn = "UpdateNodePoolSize"
    /\ F.i < Len(F.nodePools)
    /\ HasMarker(F.nodePools[F.i].tags) /\ MarkerOf(F.nodePools[F.i]) = M152
    /\ HasMarker(pools[NameAt(F, F.i)].tags)
    /\ Restorable(F.nodePools[F.i + 1])

\* C9: whenever no batch is running, a pool carries the marker exactly if it
\* is turned down (shrunk by Set and not yet restored by Reset), also after
\* batches in which a provider call failed.
C9_MarkerIffTurnedDown ==
    Returned(MainCaller) =>
        \A p \in PoolNames : HasMarker(pools[p].tags) <=> turnedDown[p]

\* a fully successful Set followed at once by a fully successful Reset on the
\* same pools, listed again after the Set
SetThenReset ==
    /\ F.op = "Reset" /\ F.pc = "done" /\ F.ret = "nil" /\ F.fresh
    /\ F.prev.op = "Set" /\ F.prev.ok
    /\ F.prev.names = NameSet(F)

\* C10 as stated: after a fully successful Set and a fully successful Reset on
\* the re-listed pools every pool has the (min, max, count) it had before the
\* Set, and no marker.
C10_ResetRestoresTriple ==
    (SetThenReset /\ F.prev.fresh) =>
        \A p \in NameSet(F) :
            /\ Triple3(pools[p]) = Triple3(F.prev.pre[p])
            /\ ~HasMarker(pools[p].tags)

\* C10 amended: after a fully successful Set and a fully successful Reset on
\* the re-listed pools every pool has the count its NodePool value had when Set
\* was called, and no marker; Reset hands the provider the decoded count only.
C10_ResetRestoresCount ==
    SetThenReset =>
        \A p \in NameSet(F) :
            /\ pools[p].count = F.prev.given[p].count
            /\ F.prev.fresh => pools[p].count = F.prev.pre[p].count
            /\ ~HasMarker(pools[p].tags)
            /\ \E j \in CallsFor(F, p) :
                  /\ F.calls[j].fn = "UpdateNodePoolSize"
                  /\ F.calls[j].arg = F.prev.given[p].count

C10_Witness ==
    /\ SetThenReset /\ F.prev.fresh
    /\ NameSet(F) = PoolNames
    /\ \A p \in PoolNames : pools[p].count = QuietStore[p].count
    /\ F.prev.pre = QuietStore
    /\ pools["A"].min # QuietStore["A"].min

\* position of pool p in the list of the batch
Pos(f, p) == CHOOSE k \in Entries(f) : NameAt(f, k) = p

\* the tag call of the batch operation
TagFn(f) == IF f.op = "Set" THEN "CreateOrUpdateTags" ELSE "DeleteTags"

Running(f) == f.op \in {"Set", "Reset"}

\* C11: SetNodePoolSizes and ResetNodePoolSizes on an empty list return nil,
\* issue no provider call and leave the provider's store as it was.
C11_EmptyListNoOp ==
    (Running(F) /\ Len(F.nodePools) = 0) =>
        /\ F.pc = "done"
        /\ F.ret = "nil"
        /\ F.calls = <<>>
        /\ pools = F.pre

C11_Witness ==
    /\ F.op = "Reset" /\ Len(F.nodePools) = 0 /\ F.pc = "done" /\ F.ret = "nil"
    /\ F.prev.op = "Set" /\ F.prev.names = {} /\ F.prev.ok
    /\ \E p \in PoolNames : HasMarker(pools[p].tags)

\* C13: the provider calls of a batch are issued one after the other in list
\* order: for each entry the resize comes first, its tag call follows only a
\* successful resize, and the next entry's resize follows only the completed
\* tag call of an earlier entry.
C13_SequentialInListOrder ==
    Running(F) =>
        /\ F.pc = "tag" <=>
              /\ F.calls # <<>>
              /\ F.calls[Len(F.calls)].fn = "UpdateNodePoolSize"
              /\ F.calls[Len(F.calls)].err = "nil"
              /\ ~Returned(MainCaller)
        /\ \A j \in 1..Len(F.calls) :
              LET call == F.calls[j]
              IN  /\ call.pool \in NameSet(F)
                  /\ Pos(F, call.pool) <= F.i
                  /\ call.fn \in {"UpdateNodePoolSize", TagFn(F)}
                  /\ call.fn = TagFn(F) =>
                        /\ j > 1
                        /\ F.calls[j - 1].fn = "UpdateNodePoolSize"
                        /\ F.calls[j - 1].pool = call.pool
                        /\ F.calls[j - 1].err = "nil"
                  /\ (call.fn = "UpdateNodePoolSize" /\ j > 1) =>
                        /\ F.calls[j - 1].fn = TagFn(F)
                        /\ F.calls[j - 1].err = "nil"
                        /\ Pos(F, F.calls[j - 1].pool) < Pos(F, call.pool)

C13_Witness ==
    /\ F.op = "Reset" /\ F.pc = "done" /\ F.ret = "nil"
    /\ Len(F.nodePools) = 3 /\ Len(F.calls) = 4
    /\ F.calls[1].pool = NameAt(F, 1) /\ F.calls[1].fn = "UpdateNodePoolSize"
    /\ F.calls[2].pool = NameAt(F, 1) /\ F.calls[2].fn = "DeleteTags"
    /\ F.calls[3].pool = NameAt(F, 2) /\ F.calls[4].pool = NameAt(F, 2)

\* C14: no retries: in one batch each entry gets at most one
\* UpdateNodePoolSize call and at most one tag call, a failed call is the last
\* call of the batch, and the batch has then returned.
C14_AtMostOnceNoRetry ==
    Running(F) =>
        /\ \A k \in Entries(F) :
              /\ Cardinality({j \in CallsFor(F, NameAt(F, k)) :
                                 F.calls[j].fn = "UpdateNodePoolSize"}) <= 1
              /\ Cardinality({j \in CallsFor(F, NameAt(F, k)) :
                                 F.calls[j].fn = TagFn(F)}) <= 1
        /\ Len(F.calls) <= 2 * Len(F.nodePools)
        /\ \A j \in 1..Len(F.calls) :
              F.calls[j].err # "nil" => (j = Len(F.calls) /\ Returned(MainCaller))

C14_Witness ==
    /\ F.op = "Set" /\ F.pc = "done" /\ F.ret \in Errors
    /\ Len(F.nodePools) = 3 /\ F.i = 1 /\ Len(F.calls) = 2
    /\ F.calls[2].fn = "CreateOrUpdateTags" /\ F.calls[2].err = F.ret
    /\ ~HasMarker(pools[NameAt(F, 1)].tags)

\* C15: the tag write of SetNodePoolSizes keeps every other tag of the pool,
\* and replaces a marker the pool already carries by flatRange of the pool's
\* current min/max/count (those of the NodePool value passed in).
C15_SetTagsKeepOthersReplaceMarker ==
    F.op = "Set" =>
        \A j \in 1..Len(F.calls) :
            (F.calls[j].fn = "CreateOrUpdateTags" /\ F.calls[j].err = "nil") =>
                LET p   == F.calls[j].pool
                    np  == F.nodePools[Pos(F, p)]
                    old == F.pre[p].tags
                    new == pools[p].tags
                IN  /\ DOMAIN new = DOMAIN old \cup {EKSNodeGroupPreviousKey}
                    /\ \A k \in DOMAIN old \ {EKSNodeGroupPreviousKey} : new[k] = old[k]
                    /\ new[EKSNodeGroupPreviousKey] = flatRange(np.min, np.max, np.count)
                    /\ F.fresh => new[EKSNodeGroupPreviousKey] =
                                     flatRange(F.pre[p].min, F.pre[p].max, F.pre[p].count)

C15_Witness ==
    /\ F.op = "Set" /\ F.pc = "done" /\ F.ret = "nil" /\ F.fresh
    /\ F.prev.op = "Set" /\ F.prev.ok
    /\ "A" \in NameSet(F) /\ "A" \in F.prev.names
    /\ HasMarker(F.pre["A"].tags) /\ MarkerOf(F.pre["A"]) = M152
    /\ MarkerOf(pools["A"]) # M152
    /\ pools["A"].tags[OwnerKey] = OwnerTags[OwnerKey]

\* C17: a Reset on re-listed pools right after a fully successful Reset of
\* freshly listed pools issues no provider call and changes nothing; and every
\* resize Reset issues is for the count decoded from the marker in the NodePool
\* value passed in, whatever the provider's tags are by then.
C17_ResetIdempotentOnFreshList ==
    F.op = "Reset" =>
        /\ (/\ F.fresh /\ F.prev.op = "Reset" /\ F.prev.ok /\ F.prev.fresh
            /\ NameSet(F) \subseteq F.prev.names) =>
              /\ F.calls = <<>>
              /\ pools = F.pre
              /\ F.pc = "done" => F.ret = "nil"
        /\ \A j \in 1..Len(F.calls) :
              F.calls[j].fn = "UpdateNodePoolSize" =>
                  LET np == F.nodePools[Pos(F, F.calls[j].pool)]
                  IN  /\ Restorable(np)
                      /\ F.calls[j].arg = expandRange(MarkerOf(np)).count

C17_Witness ==
    /\ F.op = "Reset" /\ F.pc = "done" /\ F.ret = "nil" /\ F.fresh
    /\ F.prev.op = "Reset" /\ F.prev.ok /\ F.prev.fresh
    /\ NameSet(F) = F.prev.names /\ Len(F.nodePools) = 3
    /\ \E p \in NameSet(F) :
          /\ Restorable(F.prev.pre[p])
          /\ ~HasMarker(pools[p].tags)
          /\ pools[p].count = expandRange(MarkerOf(F.prev.pre[p])).count
    /\ F.calls = <<>>

\* C18: a batch changes only pools of its list; Set issues only
\* UpdateNodePoolSize and CreateOrUpdateTags, Reset only UpdateNodePoolSize and
\* DeleteTags; Reset changes no tag other than cluster.turndown.previous.
C18_BatchFrame ==
    Running(F) =>
        /\ \A p \in PoolNames \ NameSet(F) : pools[p] = F.pre[p]
        /\ \A j \in 1..Len(F.calls) :
              F.calls[j].fn \in
                  IF F.op = "Set" THEN {"UpdateNodePoolSize", "CreateOrUpdateTags"}
                  ELSE {"UpdateNodePoolSize", "DeleteTags"}
        /\ F.op = "Reset" =>
              \A p \in PoolNames :
                  /\ DOMAIN pools[p].tags \ {EKSNodeGroupPreviousKey} =
                        DOMAIN F.pre[p].tags \ {EKSNodeGroupPreviousKey}
                  /\ \A k \in DOMAIN pools[p].tags \ {EKSNodeGroupPreviousKey} :
                        pools[p].tags[k] = F.pre[p].tags[k]

C18_Witness ==
    /\ F.op = "Reset" /\ F.pc = "done" /\ F.ret = "nil"
    /\ NameSet(F) = {"B"}
    /\ HasMarker(F.pre["B"].tags) /\ OwnerKey \in DOMAIN F.pre["B"].tags
    /\ ~HasMarker(pools["B"].tags)
    /\ pools["B"].tags = OwnerTags
    /\ HasMarker(pools["C"].tags) /\ pools["C"] = F.pre["C"]

\* C20: every size ResetNodePoolSizes hands to UpdateNodePoolSize is a
\* non-negative int32 equal to the number written in the marker's count field;
\* a count beyond the int32 range is never wrapped into another size.
C20_ResetSizeIsWrittenCount ==
    F.op = "Reset" =>
        \A j \in 1..Len(F.calls) :
            F.calls[j].fn = "UpdateNodePoolSize" =>
                LET np == F.nodePools[Pos(F, F.calls[j].pool)]
                IN  /\ F.calls[j].arg >= 0
                    /\ IsValueOf(Split(MarkerOf(np))[3], F.calls[j].arg)

\* C16: whenever no batch is running, a marker on a pool encodes the count the
\* pool had when it was last not turned down (where that count is known), also
\* after Set on an already turned-down pool and after Set batches whose tag
\* write failed.
C16_MarkerHoldsLastNormalCount ==
    Returned(MainCaller) =>
        \A p \in PoolNames :
            (HasMarker(pools[p].tags) /\ lastNormal[p] >= 0) =>
                /\ Restorable(pools[p])
                /\ expandRange(MarkerOf(pools[p])).count = lastNormal[p]

\* ------------------------------------------------------------------------
\* The turndown pool (checked under SpecSingleton)
\* ------------------------------------------------------------------------
TurndownPoolsNamed ==
    {k \in 1..Len(turndownPools) : turndownPools[k].name = EKSTurndownPoolName}

FixedParameters(r) ==
    /\ r.name = "cluster-turndown" /\ r.instanceType = "t2.small" /\ r.count = 1
    /\ r.diskType = "gp2" /\ r.diskSizeGB = 10

\* one CreateNodePool request per call, with the fixed parameters, its result
\* returned as it came
OneFixedRequestPerCall ==
    /\ Len(requests) = Len(returns)
    /\ \A k \in 1..Len(requests) :
          /\ FixedParameters(requests[k])
          /\ \A l \in DOMAIN requests[k].given :
                requests[k].labels[l] = requests[k].given[l]
          /\ returns[k] = requests[k].err

\* C12 as stated: after any sequence of CreateSingletonNodePool calls exactly
\* one pool named cluster-turndown exists, of size 1 with the fixed parameters,
\* and each call issued one fixed request and returned the provider's result.
C12_ExactlyOneAfterAnyCalls ==
    Len(returns) > 0 =>
        /\ Cardinality(TurndownPoolsNamed) = 1
        /\ \A k \in TurndownPoolsNamed : FixedParameters(turndownPools[k])
        /\ OneFixedRequestPerCall

\* C12 amended: at most one pool named cluster-turndown ever exists, exactly
\* one (size 1, t2.small, gp2, 10) once some call has returned nil, and each
\* call issues exactly one CreateNodePool request with the fixed parameters
\* and returns the provider's result unchanged.
C12_AtMostOneAndOneAfterSuccess ==
    /\ Cardinality(TurndownPoolsNamed) <= 1
    /\ (\E k \in 1..Len(returns) : returns[k] = "nil") =>
          Cardinality(TurndownPoolsNamed) = 1
    /\ \A k \in TurndownPoolsNamed : FixedParameters(turndownPools[k])
    /\ OneFixedRequestPerCall

C12_Witness ==
    /\ Len(returns) = 3
    /\ returns[1] # "nil" /\ returns[2] = "nil" /\ returns[3] = "nil"
    /\ requests[2].given # requests[3].given
    /\ Cardinality(TurndownPoolsNamed) = 1

\* ------------------------------------------------------------------------
\* Concurrent batches (checked under SpecConc)
\* ------------------------------------------------------------------------
\* the batch call of frame f run from store ps with nothing else running, the
\* provider answering its calls with the outcomes outs in turn
RECURSIVE RunAlone(_, _, _)
RunAlone(ps, f, outs) ==
    IF f.pc \notin {"iter", "tag"}
    THEN [pools |-> ps, ret |-> f.ret, calls |-> f.calls]
    ELSE
    LET np    == f.nodePools[f.i]
        err   == IF outs = <<>> THEN "none" ELSE Head(outs)
        rest  == IF outs = <<>> THEN <<>> ELSE Tail(outs)
        step(call, after, next(_)) ==
            IF err = "nil"
            THEN RunAlone(after, next([f EXCEPT !.calls = Append(@, call)]), rest)
            ELSE RunAlone(ps, Fail(f, call), rest)
        ToTag(g) == [g EXCEPT !.pc = "tag"]
    IN  IF f.op = "Set"
        THEN IF f.pc = "iter"
             THEN step(Call("UpdateNodePoolSize", np.name, f.size, err),
                       UpdateNodePoolSize(ps, np.name, f.size, resizeClamps), ToTag)
             ELSE LET tags == MarkerTag(flatRange(np.min, np.max, np.count))
                  IN  step(Call("CreateOrUpdateTags", np.name, tags, err),
                           CreateOrUpdateTags(ps, np.name, tags), Advance)
        ELSE IF f.pc = "tag"
             THEN step(Call("DeleteTags", np.name, {EKSNodeGroupPreviousKey}, err),
                       DeleteTags(ps, np.name, {EKSNodeGroupPreviousKey}), Advance)
             ELSE IF ~HasMarker(np.tags) THEN RunAlone(ps, Advance(f), outs)
             ELSE LET t == expandRange(np.tags[EKSNodeGroupPreviousKey])
                  IN  IF t.panic
                      THEN RunAlone(ps, [f EXCEPT !.pc = "panicked", !.ret = "panic"], outs)
                      ELSE IF t.count < 0 THEN RunAlone(ps, Advance(f), outs)
                      ELSE step(Call("UpdateNodePoolSize", np.name, t.count, err),
                                UpdateNodePoolSize(ps, np.name, t.count, resizeClamps),
                                ToTag)

\* frame f as it was when its call began
AtEntry(f) ==
    [f EXCEPT !.i = 1, !.calls = <<>>,
              !.pc = IF Len(f.nodePools) = 0 THEN "done" ELSE "iter",
              !.ret = IF Len(f.nodePools) = 0 THEN "nil" ELSE "none"]

\* what the provider answered to the calls of frame f
OutcomesOf(f) == [k \in 1..Len(f.calls) |-> f.calls[k].err]

\* the store before either caller began
ConcStart ==
    [p \in PoolNames |->
        IF p \in Names(frame[1].nodePools) THEN frame[1].pre[p] ELSE frame[2].pre[p]]

BothReturned ==
    \A c \in Callers : frame[c].op # "none" /\ frame[c].pc \in {"done", "panicked"}

\* c's batch first, then d's
OneAfterTheOther(c, d) ==
    LET first  == RunAlone(ConcStart, AtEntry(frame[c]), OutcomesOf(frame[c]))
        second == RunAlone(first.pools, AtEntry(frame[d]), OutcomesOf(frame[d]))
    IN  /\ pools = second.pools
        /\ frame[c].ret = first.ret /\ frame[c].calls = first.calls
        /\ frame[d].ret = second.ret /\ frame[d].calls = second.calls

\* C19: when two batch calls on disjoint pool sets have run concurrently and
\* both have returned, the provider's store, both return values and both
\* sequences of provider calls are those of running the two batches one after
\* the other, in either order.
C19_DisjointBatchesDoNotInterfere ==
    BothReturned => OneAfterTheOther(1, 2) /\ OneAfterTheOther(2, 1)

\* caller 2 began while caller 1 was between its first and its last provider
\* call, and both changed the store
C19_Witness ==
    /\ BothReturned
    /\ frame[1].op = "Set" /\ frame[2].op = "Reset"
    /\ frame[1].ret = "nil" /\ frame[2].ret = "nil"
    /\ \E p \in Names(frame[1].nodePools) :
          frame[2].pre[p] # ConcStart[p] /\ frame[2].pre[p] # pools[p]
    /\ \E p \in Names(frame[2].nodePools) : pools[p] # ConcStart[p]
====
